---- MODULE Spec2Model ----
(***************************************************************************)
(* Server actions of the dashboard (app/lib/actions.ts): validation of     *)
(* the submitted form with the zod schemas, the SQL statement each action  *)
(* awaits, and what runs after the statement settles (revalidatePath,      *)
(* redirect, or the returned state).                                       *)
(*                                                                         *)
(* A JS number is modelled as a fixed-point integer: the number v is the   *)
(* integer v * Scale, so that a product such as amount * 100 can have a    *)
(* fractional part.  A form value is either Null (FormData.get of a field  *)
(* that was not submitted) or a string.  The amount string is a sequence   *)
(* of one-character strings, so that Number(...) is computed from it.      *)
(***************************************************************************)
EXTENDS Integers, Sequences, FiniteSets, TLC

\* ------------------------------------------------------------- bounds
\* Fractional decimal digits a number keeps.
FracDigits == 3
\* Rows the invoices table ever gets (identifiers inv-1 .. inv-MaxInvoices).
MaxInvoices == 2
\* Rows the customers table ever gets (identifiers cus-1 .. cus-MaxCustomers).
MaxCustomers == 2

RECURSIVE Pow10(_)
Pow10(n) == IF n = 0 THEN 1 ELSE 10 * Pow10(n - 1)

Scale == Pow10(FracDigits)

\* ------------------------------------------------------------- values
Null == [null |-> TRUE]
Str(s) == [str |-> s]
IsNull(v) == "null" \in DOMAIN v
IsString(v) == "str" \in DOMAIN v

\* formData.get(name): the value submitted under name, null when there is none
Get(formData, name) == IF name \in DOMAIN formData THEN formData[name] ELSE Null

\* A form with the fields whose option is not Null.
Form(fields) == [n \in {f \in DOMAIN fields : ~IsNull(fields[f])} |-> fields[n]]

\* ------------------------------------------------------------- Number(...)
NaN == [nan |-> TRUE, fx |-> 0]
Num(fx) == [nan |-> FALSE, fx |-> fx]

Digits == <<"0", "1", "2", "3", "4", "5", "6", "7", "8", "9">>
IsDigit(c) == \E i \in 1..10 : Digits[i] = c
DigitVal(c) == (CHOOSE i \in 1..10 : Digits[i] = c) - 1

\* The digits of cs read as a whole number.
RECURSIVE WholePart(_)
WholePart(cs) ==
  IF cs = <<>> THEN 0
  ELSE 10 * WholePart(SubSeq(cs, 1, Len(cs) - 1)) + DigitVal(cs[Len(cs)])

\* The digits of cs read as a fraction, in units of 1/Scale; digits beyond
\* FracDigits are below the resolution of the model and dropped.
RECURSIVE FracPart(_, _)
FracPart(cs, unit) ==
  IF cs = <<>> \/ unit = 0 THEN 0
  ELSE DigitVal(cs[1]) * unit + FracPart(Tail(cs), unit \div 10)

DotAt(cs) == IF \E i \in 1..Len(cs) : cs[i] = "."
             THEN CHOOSE i \in 1..Len(cs) : cs[i] = "." /\ \A j \in 1..(i-1) : cs[j] # "."
             ELSE Len(cs) + 1

\* An unsigned decimal literal: digits, optionally a point and digits, and at
\* least one digit in all.
UnsignedNumber(cs) ==
  LET d == DotAt(cs)
      whole == SubSeq(cs, 1, d - 1)
      frac == SubSeq(cs, d + 1, Len(cs))
  IN IF /\ \A i \in 1..Len(whole) : IsDigit(whole[i])
        /\ \A i \in 1..Len(frac) : IsDigit(frac[i])
        /\ Len(whole) + Len(frac) > 0
     THEN Num(WholePart(whole) * Scale + FracPart(frac, Scale \div 10))
     ELSE NaN

\* Number(v) as z.coerce.number() applies it to a form value: null and the
\* empty string are 0, a decimal literal is its value, anything else is NaN.
ToNumber(v) ==
  IF IsNull(v) THEN Num(0)
  ELSE LET cs == v.str
       IN IF cs = <<>> THEN Num(0)
          ELSE IF cs[1] = "-"
               THEN LET u == UnsignedNumber(Tail(cs))
                    IN IF u.nan THEN NaN ELSE Num(0 - u.fx)
               ELSE IF cs[1] = "+" THEN UnsignedNumber(Tail(cs))
               ELSE UnsignedNumber(cs)

\* a * b for two numbers
\* (the whole and the fractional parts are multiplied apart, which keeps the
\* intermediate products small)
Times(a, b) ==
  IF a.nan \/ b.nan THEN NaN
  ELSE LET ai == a.fx \div Scale
           af == a.fx % Scale
           bi == b.fx \div Scale
           bf == b.fx % Scale
       IN Num(ai * bi * Scale + ai * bf + af * bi + (af * bf) \div Scale)
IsInteger(a) == ~a.nan /\ a.fx % Scale = 0
FromInt(n) == Num(n * Scale)

\* ------------------------------------------------------------- zod
\* Simplified z.string().email(): one "@", a non-empty local part that does
\* not start with a point, and a domain of non-empty labels whose last has
\* at least two characters; no blanks.
IsEmail(cs) ==
  /\ Cardinality({i \in 1..Len(cs) : cs[i] = "@"}) = 1
  /\ \A i \in 1..Len(cs) : cs[i] # " "
  /\ LET a == CHOOSE i \in 1..Len(cs) : cs[i] = "@"
         dots == {i \in (a+1)..Len(cs) : cs[i] = "."}
     IN /\ a > 1
        /\ cs[1] # "."
        /\ dots # {}
        /\ \A i \in dots : i > a + 1 /\ i < Len(cs) /\ (i + 1) \notin dots
        /\ \A i \in dots : i <= Len(cs) - 2 \/ \E j \in dots : j > i

InvalidEnumMessage == "Invalid enum value."
ExpectedStringMessage == "Expected string, received null"
ExpectedNumberMessage == "Expected number, received nan"

NoMessage == ""
Pick(custom, default) == IF custom # NoMessage THEN custom ELSE default

\* One field rule of a schema.
ZString(typeMessage) ==
  [type |-> "string", typeMessage |-> typeMessage, message |-> NoMessage, options |-> {}]
ZCoerceNumberGt0(message) ==
  [type |-> "number", typeMessage |-> NoMessage, message |-> message, options |-> {}]
ZEnum(options, typeMessage) ==
  [type |-> "enum", typeMessage |-> typeMessage, message |-> NoMessage, options |-> options]
ZEmail(message) ==
  [type |-> "email", typeMessage |-> NoMessage, message |-> message, options |-> {}]

\* The issues a rule raises on a value, and the parsed value.
Parse(rule, v) ==
  CASE rule.type = "string" ->
         IF IsString(v) THEN [issues |-> <<>>, data |-> v.str]
         ELSE [issues |-> <<Pick(rule.typeMessage, ExpectedStringMessage)>>, data |-> ""]
    [] rule.type = "number" ->
         LET n == ToNumber(v)
         IN IF n.nan THEN [issues |-> <<ExpectedNumberMessage>>, data |-> n]
            ELSE IF n.fx > 0 THEN [issues |-> <<>>, data |-> n]
            ELSE [issues |-> <<rule.message>>, data |-> n]
    [] rule.type = "enum" ->
         IF ~IsString(v)
         THEN [issues |-> <<Pick(rule.typeMessage, ExpectedStringMessage)>>, data |-> ""]
         ELSE IF v.str \in rule.options THEN [issues |-> <<>>, data |-> v.str]
         ELSE [issues |-> <<InvalidEnumMessage>>, data |-> ""]
    [] rule.type = "email" ->
         IF ~IsString(v) THEN [issues |-> <<ExpectedStringMessage>>, data |-> <<>>]
         ELSE IF IsEmail(v.str) THEN [issues |-> <<>>, data |-> v.str]
         ELSE [issues |-> <<rule.message>>, data |-> <<>>]

\* schema.omit({...})
Omit(schema, names) == [f \in DOMAIN schema \ names |-> schema[f]]

\* safeParse that stops at the first field with issues.
SafeParseFirstIssue(schema, input) ==
  LET parsed == [f \in DOMAIN schema |-> Parse(schema[f], input[f])]
      failed == {f \in DOMAIN schema : parsed[f].issues # <<>>}
      first == IF failed = {} THEN {} ELSE {CHOOSE f \in failed : TRUE}
  IN [success |-> failed = {},
      data |-> [f \in DOMAIN schema |-> parsed[f].data],
      fieldErrors |-> [f \in first |-> parsed[f].issues]]

\* schema.safeParse(input), with error.flatten().fieldErrors as fieldErrors:
\* every field is parsed, and each field with issues has its list of messages.
SafeParse(schema, input) ==
  LET parsed == [f \in DOMAIN schema |-> Parse(schema[f], input[f])]
      failed == {f \in DOMAIN schema : parsed[f].issues # <<>>}
  IN [success |-> failed = {},
      data |-> [f \in DOMAIN schema |-> parsed[f].data],
      fieldErrors |-> [f \in failed |-> parsed[f].issues]]

SelectCustomerMessage == "Please Select a Customer."
AmountMessage == "Please enter an amount greater than $0."
SelectStatusMessage == "Please select an invoice status."

FormSchema ==
  [id |-> ZString(NoMessage),
   customerId |-> ZString(SelectCustomerMessage),
   amount |-> ZCoerceNumberGt0(AmountMessage),
   status |-> ZEnum({"pending", "paid"}, SelectStatusMessage),
   date |-> ZString(NoMessage)]

CreateInvoice == Omit(FormSchema, {"id", "date"})
UpdateInvoice == Omit(FormSchema, {"id", "date"})

EnterNameMessage == "Please enter a name."
ValidEmailMessage == "Please enter a valid email address."
UploadImageMessage == "Please upload valid image."

CustomerFormSchema ==
  [id |-> ZString(NoMessage),
   name |-> ZString(EnterNameMessage),
   email |-> ZEmail(ValidEmailMessage),
   imageUrl |-> ZString(UploadImageMessage)]

CreateCustomer == Omit(CustomerFormSchema, {"id"})
UpdateCustomer == Omit(CustomerFormSchema, {"id"})

\* ------------------------------------------------------------- state
VARIABLES
  tables,      \* the rows of the invoices and of the customers table
  serial,      \* per table, the number of the next identifier the store assigns
  inv,         \* per request, the action invocation it runs
  lastWriter   \* the request whose statement the store executed last

vars == <<tables, serial, inv, lastWriter>>

Requests == {"r1", "r2"}
NoRequest == "none"

InvoicesPath == "/dashboard/invoices"
CustomersPath == "/dashboard/customers"

IdPrefix == [invoices |-> "inv-", customers |-> "cus-"]
IdOf(table, n) == IdPrefix[table] \o ToString(n)
MaxRows == [invoices |-> MaxInvoices, customers |-> MaxCustomers]
Ids(table) == {IdOf(table, n) : n \in 1..MaxRows[table]}

\* ------------------------------------------------------------- the store
NoStatement == [verb |-> "", table |-> "", id |-> "", set |-> <<>>]

InsertInvoice(customerId, amountInCents, status, date) ==
  [verb |-> "INSERT", table |-> "invoices", id |-> "",
   set |-> [customer_id |-> customerId, amount |-> amountInCents,
            status |-> status, date |-> date]]

UpdateInvoiceStatement(customerId, amountInCents, status, id) ==
  [verb |-> "UPDATE", table |-> "invoices", id |-> id,
   set |-> [customer_id |-> customerId, amount |-> amountInCents, status |-> status]]

DeleteInvoiceStatement(id) ==
  [verb |-> "DELETE", table |-> "invoices", id |-> id, set |-> <<>>]

InsertCustomer(name, email, imageUrl) ==
  [verb |-> "INSERT", table |-> "customers", id |-> "",
   set |-> [name |-> name, email |-> email, image_url |-> imageUrl]]

\* The update that leaves image_url out of its SET list.
UpdateCustomerStatementNoImage(name, email, imageUrl, id) ==
  [verb |-> "UPDATE", table |-> "customers", id |-> id,
   set |-> [name |-> name, email |-> email]]

UpdateCustomerStatement(name, email, imageUrl, id) ==
  [verb |-> "UPDATE", table |-> "customers", id |-> id,
   set |-> [name |-> name, email |-> email, image_url |-> imageUrl]]

DeleteCustomerStatement(id) ==
  [verb |-> "DELETE", table |-> "customers", id |-> id, set |-> <<>>]

\* Execute whose UPDATE has no WHERE clause.
ExecuteNoWhere(stmt, rows, freshId) ==
  CASE stmt.verb = "INSERT" ->
         rows \cup {[c \in DOMAIN stmt.set \cup {"id"} |->
                       IF c = "id" THEN freshId ELSE stmt.set[c]]}
    [] stmt.verb = "UPDATE" ->
         {[c \in DOMAIN r |-> IF c \in DOMAIN stmt.set THEN stmt.set[c] ELSE r[c]] :
            r \in rows}
    [] stmt.verb = "DELETE" -> {r \in rows : r.id # stmt.id}

\* The rows of a table after the store has executed a statement on it; an
\* inserted row gets the identifier freshId from the store.
Execute(stmt, rows, freshId) ==
  CASE stmt.verb = "INSERT" ->
         rows \cup {[c \in DOMAIN stmt.set \cup {"id"} |->
                       IF c = "id" THEN freshId ELSE stmt.set[c]]}
    [] stmt.verb = "UPDATE" ->
         {IF r.id = stmt.id
          THEN [c \in DOMAIN r |-> IF c \in DOMAIN stmt.set THEN stmt.set[c] ELSE r[c]]
          ELSE r : r \in rows}
    [] stmt.verb = "DELETE" -> {r \in rows : r.id # stmt.id}

\* ------------------------------------------------------------- invocations
Undefined == [undefined |-> TRUE]
\* no error: what an await that resolved leaves
NoError == [name |-> "", isAuthError |-> FALSE, type |-> ""]

Idle ==
  [pc |-> "Idle", op |-> "", id |-> "", formData |-> <<>>, stmt |-> NoStatement,
   value |-> Undefined, signIn |-> NoError, thrown |-> NoError, trace |-> <<>>,
   writerAtCall |-> NoRequest]

\* An invocation that returned value without awaiting anything.
Returned(pc, op, id, formData, value) ==
  [pc |-> pc, op |-> op, id |-> id, formData |-> formData, stmt |-> NoStatement,
   value |-> value, signIn |-> NoError, thrown |-> NoError, trace |-> <<>>,
   writerAtCall |-> lastWriter]

\* An invocation suspended at its await of the statement.  (writerAtCall notes
\* whose statement was the last executed when the action was called.)
Awaiting(op, id, formData, stmt) ==
  [pc |-> "Persisting", op |-> op, id |-> id, formData |-> formData, stmt |-> stmt,
   value |-> Undefined, signIn |-> NoError, thrown |-> NoError, trace |-> <<>>,
   writerAtCall |-> lastWriter]

Terminal == {"Invalid", "PersistFailed", "Redirected", "Reported", "Returned", "Thrown"}
\* A request starts an action when it runs none.
CanCall(p) == inv[p].pc \in Terminal \cup {"Idle"}

\* Inserts awaited on a table.
PendingInserts(table) ==
  Cardinality({q \in Requests : /\ inv[q].pc = "Persisting"
                                /\ inv[q].stmt.verb = "INSERT"
                                /\ inv[q].stmt.table = table})
\* The identifiers of the model's store are not used up.
HasRoom(table) == serial[table] + PendingInserts(table) <= MaxRows[table]

Call(p, invocation) ==
  /\ inv' = [inv EXCEPT ![p] = invocation]
  /\ UNCHANGED <<tables, serial, lastWriter>>

\* new Date().toISOString(), as its date, the letter T and its time
ToISOString(now) == <<now.date, "T", now.time>>
\* s.split(sep): the pieces of s between the occurrences of sep
RECURSIVE Split(_, _)
Split(s, sep) ==
  IF \A i \in 1..Len(s) : s[i] # sep THEN <<s>>
  ELSE LET k == CHOOSE i \in 1..Len(s) : s[i] = sep /\ \A j \in 1..(i-1) : s[j] # sep
       IN <<SubSeq(s, 1, k - 1)>> \o Split(SubSeq(s, k + 1, Len(s)), sep)
RECURSIVE Join(_)
Join(s) == IF s = <<>> THEN "" ELSE s[1] \o Join(Tail(s))

\* ------------------------------------------------------------- invoices
\* What follows the awaited statement of an invocation r: the events after
\* the statement settled, and how the invocation ends.
Ended(r, pc, value, events) ==
  [r EXCEPT !.pc = pc, !.value = value, !.trace = @ \o events]

Sql(ok) == <<"sql", IF ok THEN "fulfilled" ELSE "rejected">>
RevalidatePath(path) == <<"revalidatePath", path>>
Redirect(path) == <<"redirect", path>>

\* createInvoice without the early return on a failed validation.
createInvoiceNoReturn(p, formData, now) ==
  /\ CanCall(p)
  /\ HasRoom("invoices")
  /\ LET validatedFields ==
           SafeParse(CreateInvoice, [customerId |-> Get(formData, "customerId"),
                                     amount |-> Get(formData, "amount"),
                                     status |-> Get(formData, "status")])
         customerId == validatedFields.data.customerId
         amount == validatedFields.data.amount
         status == validatedFields.data.status
         amountInCents == Times(amount, FromInt(100))
         date == Join(Split(ToISOString(now), "T")[1])
     IN Call(p, Awaiting("createInvoice", "", formData,
                         InsertInvoice(customerId, amountInCents, status, date)))

createInvoice(p, formData, now) ==
  /\ CanCall(p)
  /\ HasRoom("invoices")
  /\ LET validatedFields ==
           SafeParse(CreateInvoice, [customerId |-> Get(formData, "customerId"),
                                     amount |-> Get(formData, "amount"),
                                     status |-> Get(formData, "status")])
     IN IF ~validatedFields.success
        THEN Call(p, Returned("Invalid", "createInvoice", "", formData,
                              [error |-> validatedFields.fieldErrors,
                               message |-> "Missing Fields. Failed to Create Invoice."]))
        ELSE LET customerId == validatedFields.data.customerId
                 amount == validatedFields.data.amount
                 status == validatedFields.data.status
                 amountInCents == Times(amount, FromInt(100))
                 date == Join(Split(ToISOString(now), "T")[1])
             IN Call(p, Awaiting("createInvoice", "", formData,
                                 InsertInvoice(customerId, amountInCents, status, date)))

createInvoiceResume(r, ok) ==
  IF ~ok
  THEN Ended(r, "PersistFailed",
             [message |-> "Database Error : Failed To Create Invoice."], <<Sql(ok)>>)
  ELSE Ended(r, "Redirected", Undefined,
             <<Sql(ok), RevalidatePath(InvoicesPath), Redirect(InvoicesPath)>>)

updateInvoice(p, id, formData) ==
  /\ CanCall(p)
  /\ LET validatedFields ==
           SafeParse(UpdateInvoice, [customerId |-> Get(formData, "customerId"),
                                     amount |-> Get(formData, "amount"),
                                     status |-> Get(formData, "status")])
     IN IF ~validatedFields.success
        THEN Call(p, Returned("Invalid", "updateInvoice", id, formData,
                              [error |-> validatedFields.fieldErrors,
                               message |-> "Missing Fields. Failed to Update Invoice."]))
        ELSE LET customerId == validatedFields.data.customerId
                 amount == validatedFields.data.amount
                 status == validatedFields.data.status
                 amountInCents == Times(amount, FromInt(100))
             IN Call(p, Awaiting("updateInvoice", id, formData,
                                 UpdateInvoiceStatement(customerId, amountInCents, status, id)))

\* updateInvoice whose catch block does not return.
updateInvoiceResumeFallsThrough(r, ok) ==
  Ended(r, "Redirected", Undefined,
        <<Sql(ok), RevalidatePath(InvoicesPath), Redirect(InvoicesPath)>>)

updateInvoiceResume(r, ok) ==
  IF ~ok
  THEN Ended(r, "PersistFailed",
             [message |-> "Database Error: Failed to Update Invoice."], <<Sql(ok)>>)
  ELSE Ended(r, "Redirected", Undefined,
             <<Sql(ok), RevalidatePath(InvoicesPath), Redirect(InvoicesPath)>>)

deleteInvoice(p, id) ==
  /\ CanCall(p)
  /\ Call(p, Awaiting("deleteInvoice", id, <<>>, DeleteInvoiceStatement(id)))

\* deleteInvoice that ends as the update does, with a redirect.
deleteInvoiceResumeRedirects(r, ok) ==
  IF ok
  THEN Ended(r, "Redirected", Undefined,
             <<Sql(ok), RevalidatePath(InvoicesPath), Redirect(InvoicesPath)>>)
  ELSE Ended(r, "PersistFailed",
             [message |-> "Database Error: Failed to Delete Invoice."], <<Sql(ok)>>)

deleteInvoiceResume(r, ok) ==
  IF ok
  THEN Ended(r, "Reported", [message |-> "Deleted Invoice."],
             <<Sql(ok), RevalidatePath(InvoicesPath)>>)
  ELSE Ended(r, "PersistFailed",
             [message |-> "Database Error: Failed to Delete Invoice."], <<Sql(ok)>>)

\* ------------------------------------------------------------- customers
createCustomer(p, formData) ==
  /\ CanCall(p)
  /\ HasRoom("customers")
  /\ LET validatedFields ==
           SafeParse(CreateCustomer, [name |-> Get(formData, "name"),
                                      email |-> Get(formData, "email"),
                                      imageUrl |-> Get(formData, "imageUrl")])
     IN IF ~validatedFields.success
        THEN Call(p, Returned("Invalid", "createCustomer", "", formData,
                              [error |-> validatedFields.fieldErrors,
                               message |-> "Missing Fields. Failed to Create Customer."]))
        ELSE LET name == validatedFields.data.name
                 email == validatedFields.data.email
                 imageUrl == validatedFields.data.imageUrl
             IN Call(p, Awaiting("createCustomer", "", formData,
                                 InsertCustomer(name, email, imageUrl)))

\* createCustomer that redirects before it revalidates, to the invoices.
createCustomerResumeRedirectsFirst(r, ok) ==
  IF ~ok
  THEN Ended(r, "PersistFailed",
             [message |-> "Database Error : Failed To Create Customer."], <<Sql(ok)>>)
  ELSE Ended(r, "Redirected", Undefined,
             <<Sql(ok), Redirect(InvoicesPath), RevalidatePath(CustomersPath)>>)

createCustomerResume(r, ok) ==
  IF ~ok
  THEN Ended(r, "PersistFailed",
             [message |-> "Database Error : Failed To Create Customer."], <<Sql(ok)>>)
  ELSE Ended(r, "Redirected", Undefined,
             <<Sql(ok), RevalidatePath(CustomersPath), Redirect(CustomersPath)>>)

updateCustomer(p, id, formData) ==
  /\ CanCall(p)
  /\ LET validatedFields ==
           SafeParse(UpdateCustomer, [name |-> Get(formData, "name"),
                                      email |-> Get(formData, "email"),
                                      imageUrl |-> Get(formData, "imageUrl")])
     IN IF ~validatedFields.success
        THEN Call(p, Returned("Invalid", "updateCustomer", id, formData,
                              [error |-> validatedFields.fieldErrors,
                               message |-> "Missing Fields. Failed to Update Customer."]))
        ELSE LET name == validatedFields.data.name
                 email == validatedFields.data.email
                 imageUrl == validatedFields.data.imageUrl
             IN Call(p, Awaiting("updateCustomer", id, formData,
                                 UpdateCustomerStatement(name, email, imageUrl, id)))

updateCustomerResume(r, ok) ==
  IF ~ok
  THEN Ended(r, "PersistFailed",
             [message |-> "Database Error: Failed to Update Customer."], <<Sql(ok)>>)
  ELSE Ended(r, "Redirected", Undefined,
             <<Sql(ok), RevalidatePath(CustomersPath), Redirect(CustomersPath)>>)

deleteCustomer(p, id) ==
  /\ CanCall(p)
  /\ Call(p, Awaiting("deleteCustomer", id, <<>>, DeleteCustomerStatement(id)))

deleteCustomerResume(r, ok) ==
  IF ok
  THEN Ended(r, "Reported", [message |-> "Deleted Customer."],
             <<Sql(ok), RevalidatePath(CustomersPath)>>)
  ELSE Ended(r, "PersistFailed",
             [message |-> "Database Error: Failed to Delete Customer."], <<Sql(ok)>>)

\* ------------------------------------------------------------- the awaited statement
Resume(r, ok) ==
  CASE r.op = "createInvoice" -> createInvoiceResume(r, ok)
    [] r.op = "updateInvoice" -> updateInvoiceResume(r, ok)
    [] r.op = "deleteInvoice" -> deleteInvoiceResume(r, ok)
    [] r.op = "createCustomer" -> createCustomerResume(r, ok)
    [] r.op = "updateCustomer" -> updateCustomerResume(r, ok)
    [] r.op = "deleteCustomer" -> deleteCustomerResume(r, ok)

\* The store executes the statement request p awaits, and p's action goes on.
StatementFulfilled(p) ==
  /\ inv[p].pc = "Persisting"
  /\ LET stmt == inv[p].stmt
         t == stmt.table
     IN /\ tables' = [tables EXCEPT ![t] = Execute(stmt, @, IdOf(t, serial[t]))]
        /\ serial' = [serial EXCEPT ![t] = IF stmt.verb = "INSERT" THEN @ + 1 ELSE @]
  /\ lastWriter' = p
  /\ inv' = [inv EXCEPT ![p] = Resume(@, TRUE)]

\* The store fails the statement request p awaits (sql throws).
StatementRejected(p) ==
  /\ inv[p].pc = "Persisting"
  /\ inv' = [inv EXCEPT ![p] = Resume(@, FALSE)]
  /\ UNCHANGED <<tables, serial, lastWriter>>

\* ------------------------------------------------------------- authenticate
CredentialsSignin ==
  [name |-> "CredentialsSignin", isAuthError |-> TRUE, type |-> "CredentialsSignin"]
CallbackRouteError ==
  [name |-> "CallbackRouteError", isAuthError |-> TRUE, type |-> "CallbackRouteError"]
\* the signal of a redirect after a successful sign-in, and an error that only
\* carries the type of a failed sign-in: neither is an AuthError
RedirectSignal == [name |-> "NEXT_REDIRECT", isAuthError |-> FALSE, type |-> ""]
ForeignError == [name |-> "Error", isAuthError |-> FALSE, type |-> "CredentialsSignin"]

SignInErrors == {CredentialsSignin, CallbackRouteError, RedirectSignal, ForeignError}

authenticate(p, formData) ==
  /\ CanCall(p)
  /\ Call(p, [pc |-> "SigningIn", op |-> "authenticate", id |-> "",
              formData |-> formData, stmt |-> NoStatement,
              value |-> Undefined, signIn |-> NoError, thrown |-> NoError, trace |-> <<>>,
              writerAtCall |-> lastWriter])

\* authenticate without the instanceof test.
authenticateResumeAnyError(r, error) ==
  IF error = NoError THEN [r EXCEPT !.pc = "Returned", !.value = Undefined]
  ELSE IF error.type = "CredentialsSignin"
       THEN [r EXCEPT !.pc = "Returned", !.value = [string |-> "Invalid credentials."]]
       ELSE [r EXCEPT !.pc = "Returned", !.value = [string |-> "Something went wrong."]]

\* signIn resolved (error = NoError) or threw error.
authenticateResume(r, error) ==
  IF error = NoError THEN [r EXCEPT !.pc = "Returned", !.value = Undefined]
  ELSE IF error.isAuthError
       THEN IF error.type = "CredentialsSignin"
            THEN [r EXCEPT !.pc = "Returned", !.value = [string |-> "Invalid credentials."]]
            ELSE [r EXCEPT !.pc = "Returned", !.value = [string |-> "Something went wrong."]]
       ELSE [r EXCEPT !.pc = "Thrown", !.thrown = error]

SignInSettled(p, error) ==
  /\ inv[p].pc = "SigningIn"
  /\ inv' = [inv EXCEPT ![p] = authenticateResume([@ EXCEPT !.signIn = error], error)]
  /\ UNCHANGED <<tables, serial, lastWriter>>

\* ------------------------------------------------------------- inputs
\* Every combination of a customer that is missing, empty or chosen, of an
\* amount and of a status.
CustomerIdInputs == {Null, Str(""), Str("c1")}
AmountInputs ==
  {Null, Str(<<>>), Str(<<"a", "b", "c">>), Str(<<"0">>), Str(<<"-", "5">>),
   Str(<<"1", "0", ".", "5", "0">>), Str(<<"0", ".", "0", "0", "5">>)}
StatusInputs == {Null, Str("draft"), Str("pending"), Str("paid")}

AllInvoiceForms ==
  {Form([customerId |-> c, amount |-> a, status |-> s]) :
     c \in CustomerIdInputs, a \in AmountInputs, s \in StatusInputs}

AdaEmail == <<"a", "d", "a", "@", "e", "x", ".", "c", "o">>
EveEmail == <<"e", "v", "e", "@", "e", "x", ".", "c", "o">>
NameInputs == {Null, Str(""), Str("Ada")}
EmailInputs == {Null, Str(<<"a", "d", "a">>), Str(<<"a", "@", "b">>), Str(AdaEmail)}
ImageUrlInputs == {Null, Str("/img/ada.png")}

AllCustomerForms ==
  {Form([name |-> n, email |-> e, imageUrl |-> i]) :
     n \in NameInputs, e \in EmailInputs, i \in ImageUrlInputs}

\* The submissions of a run of requests: per form, two or one that pass
\* validation and one that does not.
InvoiceA ==
  Form([customerId |-> Str("c1"), amount |-> Str(<<"1", "0", ".", "5", "0">>),
        status |-> Str("paid")])
InvoiceB ==
  Form([customerId |-> Str("c2"), amount |-> Str(<<"1", "0", ".", "5", "5", "5">>),
        status |-> Str("pending")])
InvoiceForms ==
  {InvoiceA, InvoiceB,
   Form([amount |-> Str(<<"0">>), status |-> Str("draft")])}

CustomerA ==
  Form([name |-> Str("Ada"), email |-> Str(AdaEmail), imageUrl |-> Str("/img/ada.png")])
CustomerB ==
  Form([name |-> Str("Eve"), email |-> Str(EveEmail), imageUrl |-> Str("/img/eve.png")])
CustomerForms ==
  {CustomerA,
   Form([name |-> Str("Ada"), email |-> Str(<<"a", "d", "a">>)])}

CredentialForms == {Form([email |-> Str(AdaEmail), password |-> Str("123456")])}

\* Two instants of the same UTC day.
Clock == {[date |-> "2024-01-02", time |-> "00:00:00.000Z"],
          [date |-> "2024-01-02", time |-> "23:59:59.999Z"]}

\* ------------------------------------------------------------- specification
SeedInvoice ==
  [id |-> IdOf("invoices", 1), customer_id |-> "c0", amount |-> FromInt(4500),
   status |-> "pending", date |-> "2023-12-31"]
SeedCustomer ==
  [id |-> IdOf("customers", 1), name |-> "Bob", email |-> AdaEmail,
   image_url |-> "/img/bob.png"]

Init ==
  /\ tables = [invoices |-> {SeedInvoice}, customers |-> {SeedCustomer}]
  /\ serial = [invoices |-> 2, customers |-> 2]
  /\ inv = [p \in Requests |-> Idle]
  /\ lastWriter = NoRequest

\* Requests handled one after another: one request runs the actions.
Serial == {"r1"}

Next ==
  \E p \in Serial :
    \/ \E formData \in InvoiceForms, now \in Clock : createInvoice(p, formData, now)
    \/ \E id \in Ids("invoices"), formData \in InvoiceForms : updateInvoice(p, id, formData)
    \/ \E id \in Ids("invoices") : deleteInvoice(p, id)
    \/ \E formData \in CustomerForms : createCustomer(p, formData)
    \/ \E id \in Ids("customers"), formData \in CustomerForms : updateCustomer(p, id, formData)
    \/ \E id \in Ids("customers") : deleteCustomer(p, id)
    \/ \E formData \in CredentialForms : authenticate(p, formData)
    \/ StatementFulfilled(p)
    \/ StatementRejected(p)
    \/ \E error \in SignInErrors \cup {NoError} : SignInSettled(p, error)

Spec == Init /\ [][Next]_vars

\* One submission of any form of the model, up to the statement it awaits.
NextSubmit ==
  \E p \in Serial :
    \/ \E formData \in AllInvoiceForms, now \in Clock : createInvoice(p, formData, now)
    \/ \E id \in Ids("invoices"), formData \in AllInvoiceForms :
         updateInvoice(p, id, formData)
    \/ \E formData \in AllCustomerForms : createCustomer(p, formData)
    \/ \E id \in Ids("customers"), formData \in AllCustomerForms :
         updateCustomer(p, id, formData)

SubmitSpec == Init /\ [][NextSubmit]_vars

\* Two requests that update the stored rows at the same time; a statement
\* that is awaited settles.
NextConcurrent ==
  \E p \in Requests :
    \/ \E row \in tables.invoices, formData \in {InvoiceA, InvoiceB} :
         updateInvoice(p, row.id, formData)
    \/ \E row \in tables.customers, formData \in {CustomerA, CustomerB} :
         updateCustomer(p, row.id, formData)
    \/ StatementFulfilled(p)
    \/ StatementRejected(p)

Settles(p) == StatementFulfilled(p) \/ StatementRejected(p)

ConcurrentSpec ==
  Init /\ [][NextConcurrent]_vars /\ \A p \in Requests : WF_vars(Settles(p))

\* ------------------------------------------------------------- properties
FormActions == {"createInvoice", "updateInvoice", "createCustomer", "updateCustomer"}
InvoiceActions == {"createInvoice", "updateInvoice", "deleteInvoice"}
Mutations == FormActions \cup {"deleteInvoice", "deleteCustomer"}

EntityOf(op) == IF op \in InvoiceActions THEN "Invoice" ELSE "Customer"
TableOf(op) == IF op \in InvoiceActions THEN "invoices" ELSE "customers"
ListViewOf(op) == IF op \in InvoiceActions THEN "/dashboard/invoices" ELSE "/dashboard/customers"
VerbOf(op) ==
  IF op \in {"createInvoice", "createCustomer"} THEN "Create"
  ELSE IF op \in {"updateInvoice", "updateCustomer"} THEN "Update" ELSE "Delete"

\* What the submitted form of an invocation validates to.
Validation(r) ==
  IF r.op \in {"createInvoice", "updateInvoice"}
  THEN SafeParse(Omit(FormSchema, {"id", "date"}),
                 [f \in {"customerId", "amount", "status"} |-> Get(r.formData, f)])
  ELSE SafeParse(Omit(CustomerFormSchema, {"id"}),
                 [f \in {"name", "email", "imageUrl"} |-> Get(r.formData, f)])

Events(r, name) == {i \in 1..Len(r.trace) : r.trace[i][1] = name}
StatementFailed(r) == \E i \in 1..Len(r.trace) : r.trace[i] = <<"sql", "rejected">>
StatementSucceeded(r) == \E i \in 1..Len(r.trace) : r.trace[i] = <<"sql", "fulfilled">>

\* C1: when the submitted fields of createInvoice, updateInvoice, createCustomer
\* or updateCustomer fail validation, the invocation returns the field error
\* map with the message "Missing Fields. Failed to Create/Update <Entity>.",
\* issues no statement to the store, invalidates no view and does not redirect.
C1_ValidationFailureReturnsErrors ==
  \A p \in Requests :
    LET r == inv[p]
    IN (r.op \in FormActions /\ ~Validation(r).success) =>
         /\ r.pc = "Invalid"
         /\ r.value = [error |-> Validation(r).fieldErrors,
                       message |-> "Missing Fields. Failed to " \o VerbOf(r.op) \o " "
                                     \o EntityOf(r.op) \o "."]
         /\ DOMAIN r.value.error # {}
         /\ r.stmt = NoStatement
         /\ r.trace = <<>>
         \* the last statement executed is not one of this invocation
         /\ lastWriter = p => r.writerAtCall = p

C1_Witness ==
  \E p \in Requests :
    /\ inv[p].op = "createInvoice"
    /\ inv[p].pc = "Invalid"
    /\ "amount" \in DOMAIN inv[p].value.error
    /\ tables.invoices # {SeedInvoice}

DatabaseErrorMessage(op) ==
  CASE op = "createInvoice" -> "Database Error : Failed To Create Invoice."
    [] op = "updateInvoice" -> "Database Error: Failed to Update Invoice."
    [] op = "deleteInvoice" -> "Database Error: Failed to Delete Invoice."
    [] op = "createCustomer" -> "Database Error : Failed To Create Customer."
    [] op = "updateCustomer" -> "Database Error: Failed to Update Customer."
    [] op = "deleteCustomer" -> "Database Error: Failed to Delete Customer."

\* C2: when the statement of a create, update or delete of an invoice or a
\* customer fails, the invocation returns the "Database Error" message of that
\* entity and operation, invalidates no view and does not redirect.
C2_StorageFailureReturnsMessage ==
  \A p \in Requests :
    LET r == inv[p]
    IN (r.op \in Mutations /\ StatementFailed(r)) =>
         /\ r.pc = "PersistFailed"
         /\ r.value = [message |-> DatabaseErrorMessage(r.op)]
         /\ Events(r, "revalidatePath") = {}
         /\ Events(r, "redirect") = {}

C2_Witness ==
  \E p \in Requests :
    /\ inv[p].op = "updateInvoice"
    /\ inv[p].pc = "PersistFailed"
    /\ StatementFailed(inv[p])

C4_InvoiceInvariant ==
  \A row \in tables.invoices :
    /\ ~row.amount.nan
    /\ row.amount.fx > 0
    /\ IsInteger(row.amount)
    /\ row.status \in {"pending", "paid"}

ReferenceOf(op) == IF op \in {"createInvoice", "updateInvoice"} THEN "customerId" ELSE "name"

\* C5: a submission whose customerId (invoice forms) or name (customer forms)
\* is absent or the empty string gets a field error for that field, and no
\* statement is issued to the store.
C5_ReferenceMustBeNonEmpty ==
  \A p \in Requests :
    LET r == inv[p]
        ref == Get(r.formData, ReferenceOf(r.op))
    IN (r.op \in FormActions /\ (IsNull(ref) \/ ref = Str(""))) =>
         /\ r.pc = "Invalid"
         /\ ReferenceOf(r.op) \in DOMAIN r.value.error
         /\ r.stmt = NoStatement

\* The statement request p awaits is executed in this step.
Fulfilled(p, op) ==
  /\ inv[p].pc = "Persisting"
  /\ inv[p].op = op
  /\ inv'[p].pc # "Persisting"
  /\ ~StatementFailed(inv'[p])

InvoiceUpdateFrame(p) ==
  LET r == inv[p]
      f == r.formData
      Updated(row) == [row EXCEPT !.customer_id = f.customerId.str,
                                  !.amount = Times(ToNumber(f.amount), FromInt(100)),
                                  !.status = f.status.str]
  IN /\ tables'.invoices =
          {IF row.id = r.id THEN Updated(row) ELSE row : row \in tables.invoices}
     /\ {row.id : row \in tables'.invoices} = {row.id : row \in tables.invoices}
     /\ Cardinality(tables'.invoices) = Cardinality(tables.invoices)
     /\ tables'.customers = tables.customers
     /\ (r.id = "inv-1" /\ f.amount = Str(<<"1", "0", ".", "5", "0">>)) =>
          \A row \in tables'.invoices : row.id = "inv-1" => row.amount = FromInt(1050)

CustomerUpdateFrame(p) ==
  LET r == inv[p]
      f == r.formData
      Updated(row) == [row EXCEPT !.name = f.name.str, !.email = f.email.str,
                                  !.image_url = f.imageUrl.str]
  IN /\ tables'.customers =
          {IF row.id = r.id THEN Updated(row) ELSE row : row \in tables.customers}
     /\ {row.id : row \in tables'.customers} = {row.id : row \in tables.customers}
     /\ Cardinality(tables'.customers) = Cardinality(tables.customers)
     /\ tables'.invoices = tables.invoices

\* C6: a successful updateInvoice(id, ...) sets the customer reference, the
\* amount (100 times the submitted amount: 1050 for "10.50") and the status of
\* the row whose identifier is id, and changes nothing else: the other rows,
\* the identifier and the date of the row and the number of rows stay.  The
\* same holds of updateCustomer with name, email and image reference.
C6_UpdateChangesOnlyItsRow ==
  [][\A p \in Requests :
       /\ Fulfilled(p, "updateInvoice") => InvoiceUpdateFrame(p)
       /\ Fulfilled(p, "updateCustomer") => CustomerUpdateFrame(p)]_vars

C6_Witness ==
  \E p \in Requests :
    /\ inv[p].op = "updateInvoice"
    /\ inv[p].pc = "Redirected"
    /\ inv[p].id = "inv-1"
    /\ inv[p].formData = InvoiceA
    /\ \E row \in tables.invoices :
         row.id = "inv-1" /\ row.amount = FromInt(1050) /\ row.date = "2023-12-31"
    /\ \E row \in tables.invoices : row.id = "inv-2" /\ row.customer_id = "c2"

\* C7: a delete whose identifier matches no row leaves the store as it is,
\* and ends as a delete that removed a row does: the list view is invalidated,
\* "Deleted <Entity>." is returned and there is no redirect.
C7_DeleteOfNoRowIsADelete ==
  [][\A p \in Requests, op \in {"deleteInvoice", "deleteCustomer"} :
       Fulfilled(p, op) =>
         /\ inv'[p].pc = "Reported"
         /\ inv'[p].value = [message |-> "Deleted " \o EntityOf(op) \o "."]
         /\ inv'[p].trace = <<<<"sql", "fulfilled">>, <<"revalidatePath", ListViewOf(op)>>>>
         /\ (\A row \in tables[TableOf(op)] : row.id # inv[p].id) => tables' = tables
         /\ tables'[TableOf(op)] = {row \in tables[TableOf(op)] : row.id # inv[p].id}]_vars

\* the invoice inv-2 was never inserted, and its delete is reported
C7_Witness ==
  \E p \in Requests :
    /\ inv[p].op = "deleteInvoice"
    /\ inv[p].pc = "Reported"
    /\ inv[p].id = "inv-2"
    /\ serial.invoices = 2
    /\ tables.invoices # {}

\* C8: the error map of createInvoice and updateInvoice has an entry for every
\* field that fails its rule (customerId missing, amount <= 0 or not a number,
\* status not "pending" or "paid") and none for a field that passes; a
\* submission with no failing field gets no error map.
C8_EveryFailingFieldIsReported ==
  \A p \in Requests :
    LET r == inv[p]
        n == ToNumber(Get(r.formData, "amount"))
        failing ==
          {f \in {"customerId"} : IsNull(Get(r.formData, "customerId"))}
          \cup {f \in {"amount"} : n.nan \/ n.fx <= 0}
          \cup {f \in {"status"} : Get(r.formData, "status") \notin {Str("pending"), Str("paid")}}
    IN r.op \in {"createInvoice", "updateInvoice"} =>
         IF failing = {} THEN r.pc = "Persisting" /\ r.value = Undefined
         ELSE r.pc = "Invalid" /\ DOMAIN r.value.error = failing

C8_Witness ==
  \E p \in Requests :
    /\ inv[p].op = "createInvoice"
    /\ inv[p].pc = "Invalid"
    /\ inv[p].formData = Form([customerId |-> Null, amount |-> Str(<<"0">>),
                               status |-> Str("paid")])
    /\ DOMAIN inv[p].value.error = {"customerId", "amount"}

\* C9: authenticate returns "Invalid credentials." when signIn fails with an
\* AuthError of type CredentialsSignin, "Something went wrong." when it fails
\* with another AuthError, throws the error it caught when that is no
\* AuthError, and returns no message when signIn succeeds.
C9_PropagateUnlessRecognized ==
  \A p \in Requests :
    LET r == inv[p]
        e == r.signIn
    IN (r.op = "authenticate" /\ r.pc # "SigningIn") =>
         /\ e = NoError => r.pc = "Returned" /\ r.value = Undefined /\ r.thrown = NoError
         /\ (e.isAuthError /\ e.type = "CredentialsSignin") =>
              r.pc = "Returned" /\ r.value = [string |-> "Invalid credentials."]
         /\ (e.isAuthError /\ e.type # "CredentialsSignin") =>
              r.pc = "Returned" /\ r.value = [string |-> "Something went wrong."]
         /\ (e # NoError /\ ~e.isAuthError) =>
              r.pc = "Thrown" /\ r.thrown = e /\ r.value = Undefined

C9_Witness ==
  \E p \in Requests :
    /\ inv[p].op = "authenticate"
    /\ inv[p].pc = "Thrown"
    /\ inv[p].thrown = ForeignError

\* The columns an update of the form f sets.
WrittenBy(op, f) ==
  IF op = "updateInvoice"
  THEN [customer_id |-> f.customerId.str,
        amount |-> Times(ToNumber(f.amount), FromInt(100)),
        status |-> f.status.str]
  ELSE [name |-> f.name.str, email |-> f.email.str, image_url |-> f.imageUrl.str]

\* Two updates of one row have both redirected.
BothDone(p, q) ==
  /\ p # q
  /\ inv[p].pc = "Redirected"
  /\ inv[q].pc = "Redirected"
  /\ inv[p].op = inv[q].op
  /\ inv[p].id = inv[q].id

LastWriteWins ==
  \A p, q \in Requests :
    BothDone(p, q) =>
      /\ lastWriter \in {p, q}
      /\ \A row \in tables[TableOf(inv[p].op)] :
           row.id = inv[p].id =>
             LET w == WrittenBy(inv[p].op, inv[lastWriter].formData)
             IN \A c \in DOMAIN w : row[c] = w[c]

NeverBlocked ==
  \A p \in Requests : inv[p].pc = "Persisting" => ENABLED StatementFulfilled(p)

\* C10: two updates of the same row that run at the same time do not block
\* each other (the statement an update awaits can always be executed), each
\* comes to its end (the redirect, unless the store fails its statement), and
\* once both have redirected the row holds the three fields of the update
\* whose statement was executed last.
C10_LastWriteWins ==
  /\ [](NeverBlocked /\ LastWriteWins)
  /\ \A p \in Requests :
       (inv[p].pc = "Persisting") ~> (inv[p].pc \in {"Redirected", "PersistFailed"})

\* both updates were called before either statement was executed
C10_Witness ==
  /\ BothDone("r1", "r2")
  /\ inv["r1"].op = "updateInvoice"
  /\ inv["r1"].id = "inv-1"
  /\ inv["r1"].formData = InvoiceA
  /\ inv["r2"].formData = InvoiceB
  /\ inv["r1"].writerAtCall = NoRequest
  /\ inv["r2"].writerAtCall = NoRequest
  /\ lastWriter = "r1"
  /\ \E row \in tables.invoices :
       row.id = "inv-1" /\ row.customer_id = "c1" /\ row.status = "paid"

====
